---- MODULE Spec2Model ----
(***************************************************************************)
(* SPIJ norma tracker (projects/spij-norma-tracker/app.py): the version    *)
(* store kept in the SQLite table norma_versions, the capture step         *)
(* save_if_changed and the two queries get_latest_version / list_versions. *)
(*                                                                         *)
(* Spec      : every call runs alone (one Streamlit script run at a time). *)
(* SpecRace  : two script runs; save_if_changed is split where the code    *)
(*             splits it, between the SELECT of get_latest_version and the *)
(*             INSERT, which are two separate SQLite transactions.         *)
(* SpecDiff  : iter_changes applied to bounded texts.                      *)
(* SpecNorm  : extract_norma_text applied to bounded HTML documents.       *)
(* SpecMain  : whole script runs of main(), capture button and comparison. *)
(***************************************************************************)
EXTENDS Integers, Sequences, FiniteSets, TLC

(* ---- bounds of the model ---- *)
MaxRows == 3        \* rows the table may hold in Spec
MaxRaceRows == 2    \* rows the table may hold in SpecRace
MaxClock == 2       \* wall clock readings are 0..MaxClock, in half seconds
MaxMainRows == 2    \* rows the table may hold in SpecMain
MaxPieces == 4      \* pieces of a document handed to the normalizer
MaxTextLen == 3     \* characters of a text handed to the diff in SpecDiff

NormaIds == {1, 2}     \* the ids typed into "ID interno de la norma"
Urls == {1, 2}         \* the urls typed into "URL de la norma en SPIJ"
Texts == {1, 2}        \* the texts fetch_norma may return
ClockReadings == 0..MaxClock
Procs == {1, 2}

VARIABLES
    schema,   \* TRUE once table norma_versions and its index exist
    rows,     \* table norma_versions, in rowid order
    seq,      \* sqlite_sequence entry of the table (AUTOINCREMENT)
    last,     \* the most recent call: its name, arguments, result
    pc,       \* SpecRace: where each script run is inside save_if_changed
    loc,      \* SpecRace: the locals of each running save_if_changed
    fn        \* SpecDiff, SpecNormalize: a function call, arguments and result

vars == <<schema, rows, seq, last, pc, loc, fn>>

(* ---- NormaVersion (dataclass) ---- *)
NormaVersion(id, norma_id, fetched_at, source_url, content_hash, content_text) ==
    [id |-> id, norma_id |-> norma_id, fetched_at |-> fetched_at,
     source_url |-> source_url, content_hash |-> content_hash,
     content_text |-> content_text]

None == << >>
Some(row) == << row >>

(* hash_content: SHA-256 hex digest of the text.  The digest is a fixed    *)
(* width value computed from the text alone; on the texts of the model it  *)
(* is injective, as SHA-256 is taken to be.                                *)
hash_content(content_text) == (31 * content_text + 7) % 256

(* datetime.utcnow().isoformat(timespec="seconds") + "Z": the reading is   *)
(* truncated to whole seconds; the fixed-width ISO strings compare as the  *)
(* second counts do.                                                       *)
isoformat_seconds(reading) == reading \div 2

(* Order of the entries of idx_norma_versions_lookup(norma_id, fetched_at) *)
(* within one norma_id: by fetched_at, then by rowid.  Both queries below  *)
(* are answered by a scan of this index, forwards for ASC and backwards    *)
(* for DESC, so rows with equal fetched_at come out in rowid order.        *)
idx_norma_versions_lookup(r1, r2) ==
    \/ r1.fetched_at < r2.fetched_at
    \/ r1.fetched_at = r2.fetched_at /\ r1.id < r2.id

idx_before_or_same(r1, r2) == r1 = r2 \/ idx_norma_versions_lookup(r1, r2)

(* WHERE norma_id = ? *)
where_norma_id(table, norma_id) ==
    SelectSeq(table, LAMBDA r : r.norma_id = norma_id)

Range(s) == {s[i] : i \in DOMAIN s}

(* as latest_of, but the WHERE clause is missing: the newest row of the    *)
(* whole table                                                             *)
latest_of_any_norma(table, norma_id) ==
    LET found == Range(table)
    IN  IF found = {} THEN None
        ELSE Some(CHOOSE r \in found : \A q \in found : idx_before_or_same(q, r))

(* as latest_of, but rows with equal fetched_at come out lowest id first,   *)
(* as a sort of the table scan would give them                             *)
latest_of_first_tie(table, norma_id) ==
    LET found == Range(where_norma_id(table, norma_id))
    IN  IF found = {} THEN None
        ELSE Some(CHOOSE r \in found : \A q \in found :
                    \/ q.fetched_at < r.fetched_at
                    \/ q.fetched_at = r.fetched_at /\ q.id >= r.id)

(* get_latest_version: ORDER BY fetched_at DESC LIMIT 1, or None *)
latest_of(table, norma_id) ==
    LET found == Range(where_norma_id(table, norma_id))
    IN  IF found = {} THEN None
        ELSE Some(CHOOSE r \in found : \A q \in found : idx_before_or_same(q, r))

(* list_versions: ORDER BY fetched_at ASC *)
versions_of(table, norma_id) ==
    SortSeq(where_norma_id(table, norma_id), idx_norma_versions_lookup)

(* ---- difflib, as iter_changes uses it ---- *)
(* A text is a sequence of characters, a line a sequence of characters     *)
(* without line terminator.                                                *)

(* str.splitlines(): cut at every line terminator; a terminator at the end *)
(* of the text starts no further line.                                     *)
RECURSIVE splitlines(_)
splitlines(text) ==
    IF text = << >> THEN << >>
    ELSE LET ends == {i \in DOMAIN text : text[i] = "\n"}
         IN  IF ends = {} THEN << text >>
             ELSE LET i == CHOOSE e \in ends : \A o \in ends : e <= o
                  IN  << SubSeq(text, 1, i - 1) >>
                        \o splitlines(SubSeq(text, i + 1, Len(text)))

(* length of the common run of a[i:ahi] and b[j:bhi] (0-based, half open) *)
RECURSIVE common_run(_, _, _, _, _, _)
common_run(a, b, i, j, ahi, bhi) ==
    IF i < ahi /\ j < bhi /\ a[i + 1] = b[j + 1]
    THEN 1 + common_run(a, b, i + 1, j + 1, ahi, bhi)
    ELSE 0

(* SequenceMatcher.find_longest_match without junk: the longest block      *)
(* a[i:i+k] = b[j:j+k] inside a[alo:ahi], b[blo:bhi]; of the longest the    *)
(* one that starts earliest in a, of those the one earliest in b;          *)
(* (alo, blo, 0) when nothing matches.                                     *)
find_longest_match(a, b, alo, ahi, blo, bhi) ==
    LET blocks == {<<i, j, common_run(a, b, i, j, ahi, bhi)>> :
                      i \in alo..(ahi - 1), j \in blo..(bhi - 1)}
        found == {m \in blocks : m[3] > 0}
        better(m, o) ==
            \/ m[3] > o[3]
            \/ m[3] = o[3] /\ m[1] < o[1]
            \/ m[3] = o[3] /\ m[1] = o[1] /\ m[2] <= o[2]
    IN  IF found = {} THEN <<alo, blo, 0>>
        ELSE CHOOSE m \in found : \A o \in found : better(m, o)

tagged(tag, lines, lo, hi) ==
    [p \in 1..(hi - lo) |-> [tag |-> tag, line |-> lines[lo + p]]]

(* get_matching_blocks / get_opcodes, read off as unified_diff does: the    *)
(* longest block stays (" "), what is left and right of it is matched the  *)
(* same way; a stretch without match is a[alo:ahi] removed ("-") and then  *)
(* b[blo:bhi] added ("+").                                                 *)
RECURSIVE opcode_lines(_, _, _, _, _, _)
opcode_lines(a, b, alo, ahi, blo, bhi) ==
    LET m == find_longest_match(a, b, alo, ahi, blo, bhi)
    IN  IF m[3] = 0
        THEN tagged("-", a, alo, ahi) \o tagged("+", b, blo, bhi)
        ELSE opcode_lines(a, b, alo, m[1], blo, m[2])
               \o tagged(" ", a, m[1], m[1] + m[3])
               \o opcode_lines(a, b, m[1] + m[3], ahi, m[2] + m[3], bhi)

(* get_grouped_opcodes(3): an unchanged line is shown when at most three   *)
(* lines away from a changed one; every stretch of shown lines is a hunk.  *)
in_hunk(ops, p) ==
    \E q \in DOMAIN ops : ops[q].tag # " " /\ q - p <= 3 /\ p - q <= 3

(* "--- versión anterior", "+++ versión nueva" and "@@ -l,s +l,s @@": the   *)
(* file names and the ranges are shortened, the leading characters kept.   *)
fromfile_line == <<"-", "-", "-", " ", "v", "a">>
tofile_line == <<"+", "+", "+", " ", "v", "n">>
hunk_line == <<"@", "@", " ", "@", "@">>

RECURSIVE hunks(_, _)
hunks(ops, p) ==
    IF p > Len(ops) THEN << >>
    ELSE IF ~in_hunk(ops, p) THEN hunks(ops, p + 1)
    ELSE (IF p = 1 \/ ~in_hunk(ops, p - 1) THEN << hunk_line >> ELSE << >>)
           \o << << ops[p].tag >> \o ops[p].line >>
           \o hunks(ops, p + 1)

(* difflib.unified_diff(a, b, fromfile, tofile, lineterm="") *)
unified_diff(a, b) ==
    LET ops == opcode_lines(a, b, 0, Len(a), 0, Len(b))
    IN  IF \A p \in DOMAIN ops : ops[p].tag = " " THEN << >>
        ELSE << fromfile_line, tofile_line >> \o hunks(ops, 1)

startswith(line, prefix) ==
    Len(line) >= Len(prefix) /\ SubSeq(line, 1, Len(prefix)) = prefix

(* iter_changes: the lines of the unified diff that start with "+" or "-"  *)
(* and do not start with "+++" or "---"                                    *)
iter_changes(old_text, new_text) ==
    SelectSeq(unified_diff(splitlines(old_text), splitlines(new_text)),
              LAMBDA line :
                 /\ startswith(line, <<"+">>) \/ startswith(line, <<"-">>)
                 /\ ~(\/ startswith(line, <<"+", "+", "+">>)
                      \/ startswith(line, <<"-", "-", "-">>)))

Call(op, args, ret, before) ==
    [op |-> op, args |-> args, ret |-> ret, before |-> before]

(* a script run that is not inside save_if_changed *)
NoLocals ==
    [norma_id |-> 0, source_url |-> 0, content_text |-> 0, new_hash |-> 0,
     latest |-> None]

FnCall(op, a, b, out) == [op |-> op, a |-> a, b |-> b, out |-> out]
NoFn == FnCall("none", << >>, << >>, << >>)

(* the database file before the first run: no table, no call made *)
StoreInit ==
    /\ schema = FALSE
    /\ rows = << >>
    /\ seq = 0
    /\ last = Call("start", << >>, << >>, 0)
    /\ pc = [p \in Procs |-> "idle"]
    /\ loc = [p \in Procs |-> NoLocals]

Init ==
    /\ StoreInit
    /\ fn = NoFn

(* as init_db, but the table is created anew on every run *)
init_db_recreate ==
    /\ schema' = TRUE
    /\ rows' = << >>
    /\ last' = Call("init_db", << >>, << >>, Len(rows))
    /\ UNCHANGED <<seq, pc, loc, fn>>

(* init_db: CREATE TABLE IF NOT EXISTS, CREATE INDEX IF NOT EXISTS *)
init_db ==
    /\ schema' = TRUE
    /\ last' = Call("init_db", << >>, << >>, Len(rows))
    /\ UNCHANGED <<rows, seq, pc, loc, fn>>

(* as insert_row, but the last two bound values are given in the other     *)
(* order, so the text lands in content_hash and the hash in content_text   *)
insert_row_swapped(table, counter, norma_id, fetched_at, source_url, new_hash, content_text) ==
    Append(table, NormaVersion(counter + 1, norma_id, fetched_at, source_url,
                               content_text, new_hash))

(* as insert_row, but the id counts the versions of the norma_id *)
insert_row_per_norma(table, counter, norma_id, fetched_at, source_url, new_hash, content_text) ==
    Append(table, NormaVersion(Len(where_norma_id(table, norma_id)) + 1,
                               norma_id, fetched_at, source_url,
                               new_hash, content_text))

(* INSERT INTO norma_versions(...): the row gets the next AUTOINCREMENT id *)
insert_row(table, counter, norma_id, fetched_at, source_url, new_hash, content_text) ==
    Append(table, NormaVersion(counter + 1, norma_id, fetched_at, source_url,
                               new_hash, content_text))

get_latest_version(norma_id) ==
    /\ schema
    /\ last' = Call("get_latest_version", <<norma_id>>,
                    latest_of(rows, norma_id), Len(rows))
    /\ UNCHANGED <<schema, rows, seq, pc, loc, fn>>

list_versions(norma_id) ==
    /\ schema
    /\ last' = Call("list_versions", <<norma_id>>,
                    versions_of(rows, norma_id), Len(rows))
    /\ UNCHANGED <<schema, rows, seq, pc, loc, fn>>

(* as save_if_changed, but an unchanged capture re-stamps the latest row    *)
(* with the url it was fetched from this time                              *)
save_if_changed_touch(norma_id, source_url, content_text) ==
    LET new_hash == hash_content(content_text)
        latest == latest_of(rows, norma_id)
    IN  /\ schema
        /\ IF latest # None /\ latest[1].content_hash = new_hash
           THEN /\ last' = Call("save_if_changed",
                                <<norma_id, source_url, content_text>>,
                                <<FALSE, new_hash>>, Len(rows))
                /\ rows' = [i \in DOMAIN rows |->
                              IF rows[i].id = latest[1].id
                              THEN [rows[i] EXCEPT !.source_url = source_url]
                              ELSE rows[i]]
                /\ UNCHANGED seq
           ELSE /\ Len(rows) < MaxRows
                /\ \E utcnow \in ClockReadings :
                     rows' = insert_row(rows, seq, norma_id,
                                        isoformat_seconds(utcnow), source_url,
                                        new_hash, content_text)
                /\ seq' = seq + 1
                /\ last' = Call("save_if_changed",
                                <<norma_id, source_url, content_text>>,
                                <<TRUE, new_hash>>, Len(rows))
        /\ UNCHANGED <<schema, pc, loc, fn>>

(* save_if_changed, run alone: hash, look up the latest, return            *)
(* (False, hash) when its hash is the same, else insert with the current   *)
(* wall clock reading and return (True, hash).                             *)
save_if_changed(norma_id, source_url, content_text) ==
    LET new_hash == hash_content(content_text)
        latest == latest_of(rows, norma_id)
    IN  /\ schema
        /\ IF latest # None /\ latest[1].content_hash = new_hash
           THEN /\ last' = Call("save_if_changed",
                                <<norma_id, source_url, content_text>>,
                                <<FALSE, new_hash>>, Len(rows))
                /\ UNCHANGED <<rows, seq>>
           ELSE /\ Len(rows) < MaxRows
                /\ \E utcnow \in ClockReadings :
                     rows' = insert_row(rows, seq, norma_id,
                                        isoformat_seconds(utcnow), source_url,
                                        new_hash, content_text)
                /\ seq' = seq + 1
                /\ last' = Call("save_if_changed",
                                <<norma_id, source_url, content_text>>,
                                <<TRUE, new_hash>>, Len(rows))
        /\ UNCHANGED <<schema, pc, loc, fn>>

Next ==
    \/ init_db
    \/ \E n \in NormaIds : get_latest_version(n)
    \/ \E n \in NormaIds : list_versions(n)
    \/ \E n \in NormaIds, u \in Urls, t \in Texts : save_if_changed(n, u, t)

Spec == Init /\ [][Next]_vars

(* ---- two script runs at once ---- *)

(* Rows that runs already past the check are about to insert. *)
pending == Cardinality({p \in Procs : pc[p] = "insert"})

(* save_if_changed up to the decision: new_hash, the SELECT of             *)
(* get_latest_version (one transaction), the comparison, and the early     *)
(* return when nothing changed.                                            *)
save_check(p, norma_id, source_url, content_text) ==
    LET new_hash == hash_content(content_text)
        latest == latest_of(rows, norma_id)
        locals == [norma_id |-> norma_id, source_url |-> source_url,
                   content_text |-> content_text, new_hash |-> new_hash,
                   latest |-> latest]
    IN  /\ schema
        /\ pc[p] = "idle"
        /\ IF latest # None /\ latest[1].content_hash = new_hash
           THEN /\ last' = Call("save_if_changed",
                                <<norma_id, source_url, content_text>>,
                                <<FALSE, new_hash>>, Len(rows))
                /\ UNCHANGED <<pc, loc>>
           ELSE /\ Len(rows) + pending < MaxRaceRows
                /\ pc' = [pc EXCEPT ![p] = "insert"]
                /\ loc' = [loc EXCEPT ![p] = locals]
                /\ UNCHANGED last
        /\ UNCHANGED <<schema, rows, seq, fn>>

(* as save_insert, but the INSERT looks at the latest version again and is *)
(* skipped when that already has the hash                                  *)
save_insert_recheck(p) ==
    LET latest == latest_of(rows, loc[p].norma_id)
    IN  /\ pc[p] = "insert"
        /\ IF latest # None /\ latest[1].content_hash = loc[p].new_hash
           THEN /\ last' = Call("save_if_changed",
                                <<loc[p].norma_id, loc[p].source_url,
                                  loc[p].content_text>>,
                                <<FALSE, loc[p].new_hash>>, Len(rows))
                /\ UNCHANGED <<rows, seq>>
           ELSE /\ \E utcnow \in ClockReadings :
                     rows' = insert_row(rows, seq, loc[p].norma_id,
                                        isoformat_seconds(utcnow),
                                        loc[p].source_url, loc[p].new_hash,
                                        loc[p].content_text)
                /\ seq' = seq + 1
                /\ last' = Call("save_if_changed",
                                <<loc[p].norma_id, loc[p].source_url,
                                  loc[p].content_text>>,
                                <<TRUE, loc[p].new_hash>>, Len(rows))
        /\ pc' = [pc EXCEPT ![p] = "idle"]
        /\ loc' = [loc EXCEPT ![p] = NoLocals]
        /\ UNCHANGED <<schema, fn>>

(* save_if_changed from the decision on: the INSERT (a second transaction, *)
(* with no new look at the table) and return (True, new_hash).             *)
save_insert(p) ==
    /\ pc[p] = "insert"
    /\ \E utcnow \in ClockReadings :
         rows' = insert_row(rows, seq, loc[p].norma_id,
                            isoformat_seconds(utcnow), loc[p].source_url,
                            loc[p].new_hash, loc[p].content_text)
    /\ seq' = seq + 1
    /\ pc' = [pc EXCEPT ![p] = "idle"]
    /\ loc' = [loc EXCEPT ![p] = NoLocals]
    /\ last' = Call("save_if_changed",
                    <<loc[p].norma_id, loc[p].source_url, loc[p].content_text>>,
                    <<TRUE, loc[p].new_hash>>, Len(rows))
    /\ UNCHANGED <<schema, fn>>

NextRace ==
    \/ init_db
    \/ \E p \in Procs, n \in NormaIds, u \in Urls, t \in Texts :
         save_check(p, n, u, t)
    \/ \E p \in Procs : save_insert(p)

SpecRace == Init /\ [][NextRace]_vars

(* ---------- the comparison functions applied to bounded texts ---------- *)

(* texts are sequences of characters; "-" and "+" are the characters the  *)
(* diff marks lines with, "\n" ends a line                                *)
DiffChars == {"a", "-", "+", "\n"}
DiffTexts == UNION {[1..k -> DiffChars] : k \in 0..MaxTextLen}

InitDiff ==
    /\ StoreInit
    /\ fn \in {FnCall("args", old_text, new_text, << >>) :
                 old_text \in DiffTexts, new_text \in DiffTexts}

(* changes = list(iter_changes(old.content_text, new.content_text)) *)
call_iter_changes ==
    /\ fn.op = "args"
    /\ fn' = FnCall("iter_changes", fn.a, fn.b, iter_changes(fn.a, fn.b))
    /\ UNCHANGED <<schema, rows, seq, last, pc, loc>>

NextDiff == call_iter_changes

SpecDiff == InitDiff /\ [][NextDiff]_vars

(* ------------------- whole script runs of main() ------------------- *)

EmptyInput == 0            \* a text_input left empty
RequestException == 0      \* fetch_norma raised requests.RequestException
FetchOutcomes == Texts \cup {RequestException}
MainUrls == {1}            \* the url typed in SpecMain (it is only stored)

(* the characters of the texts fetch_norma returns *)
text_body(content_text) ==
    IF content_text = 1
    THEN <<"a", "b", "c">>
    ELSE <<"a", "b", "c", "\n", "+", "+", "d">>

(* save_if_changed as a function of the table and of the clock reading:   *)
(* its return value and the table it leaves                               *)
save_result(table, counter, norma_id, source_url, content_text, utcnow) ==
    LET new_hash == hash_content(content_text)
        latest == latest_of(table, norma_id)
    IN  IF latest # None /\ latest[1].content_hash = new_hash
        THEN [ret |-> <<FALSE, new_hash>>, rows |-> table, seq |-> counter]
        ELSE [ret |-> <<TRUE, new_hash>>,
              rows |-> insert_row(table, counter, norma_id,
                                  isoformat_seconds(utcnow), source_url,
                                  new_hash, content_text),
              seq |-> counter + 1]

Capture(msg, fetched, save, table, counter) ==
    [msg |-> msg, fetched |-> fetched, save |-> save,
     rows |-> table, seq |-> counter]

(* as capture_outcomes, but a failed download goes on to save_if_changed  *)
(* with the empty text it has                                             *)
capture_outcomes_keep_going(button, norma_id, norma_url) ==
    IF ~button
    THEN {Capture("none", None, None, rows, seq)}
    ELSE IF norma_id = EmptyInput \/ norma_url = EmptyInput
    THEN {Capture("error", None, None, rows, seq)}
    ELSE {LET r == save_result(rows, seq, norma_id, norma_url,
                               IF fetched = RequestException
                               THEN EmptyInput ELSE fetched, utcnow)
          IN  Capture(IF fetched = RequestException THEN "error"
                      ELSE IF r.ret[1] THEN "success" ELSE "info",
                      <<fetched>>, r.ret, r.rows, r.seq) :
            fetched \in FetchOutcomes, utcnow \in ClockReadings}

(* the button block of main(): what a run may show and leave in the       *)
(* table, for every response of the portal and every clock reading        *)
capture_outcomes(button, norma_id, norma_url) ==
    IF ~button
    THEN {Capture("none", None, None, rows, seq)}
    ELSE IF norma_id = EmptyInput \/ norma_url = EmptyInput
    THEN {Capture("error", None, None, rows, seq)}
    ELSE {Capture("error", <<RequestException>>, None, rows, seq)}
         \cup
         {LET r == save_result(rows, seq, norma_id, norma_url, fetched, utcnow)
          IN  Capture(IF r.ret[1] THEN "success" ELSE "info",
                      <<fetched>>, r.ret, r.rows, r.seq) :
            fetched \in Texts, utcnow \in ClockReadings}

Compare(kind, old_idx, new_idx, changes) ==
    [kind |-> kind, old_idx |-> old_idx, new_idx |-> new_idx,
     changes |-> changes]

(* as compare_outcomes, but only a base after the new version is refused *)
compare_outcomes_allow_equal(versions) ==
    IF versions = << >>
    THEN {Compare("info", None, None, None)}
    ELSE IF Len(versions) < 2
    THEN {Compare("warning", None, None, None)}
    ELSE {IF old_idx > new_idx
          THEN Compare("error", old_idx, new_idx, None)
          ELSE Compare("diff", old_idx, new_idx,
                       <<iter_changes(
                           text_body(versions[old_idx + 1].content_text),
                           text_body(versions[new_idx + 1].content_text))>>) :
            old_idx \in 0..(Len(versions) - 1),
            new_idx \in 0..(Len(versions) - 1)}

(* the history and comparison part of main(), for every choice of the    *)
(* two selectboxes (indices count from 0, as range(len(versions)))       *)
compare_outcomes(versions) ==
    IF versions = << >>
    THEN {Compare("info", None, None, None)}
    ELSE IF Len(versions) < 2
    THEN {Compare("warning", None, None, None)}
    ELSE {IF old_idx >= new_idx
          THEN Compare("error", old_idx, new_idx, None)
          ELSE Compare("diff", old_idx, new_idx,
                       <<iter_changes(
                           text_body(versions[old_idx + 1].content_text),
                           text_body(versions[new_idx + 1].content_text))>>) :
            old_idx \in 0..(Len(versions) - 1),
            new_idx \in 0..(Len(versions) - 1)}

(* one script run: init_db, the button block when the button was         *)
(* pressed, then the history and the comparison                          *)
main(button, norma_id, norma_url) ==
    \E cap \in capture_outcomes(button, norma_id, norma_url) :
        /\ Len(cap.rows) <= MaxMainRows
        /\ \E cmp \in compare_outcomes(
                         IF norma_id = EmptyInput THEN << >>
                         ELSE versions_of(cap.rows, norma_id)) :
             last' = Call("main",
                          [button |-> button, norma_id |-> norma_id,
                           norma_url |-> norma_url, fetched |-> cap.fetched],
                          [msg |-> cap.msg, save |-> cap.save, compare |-> cmp],
                          Len(rows))
        /\ schema' = TRUE
        /\ rows' = cap.rows
        /\ seq' = cap.seq
        /\ UNCHANGED <<pc, loc, fn>>

NextMain ==
    \E button \in BOOLEAN, norma_id \in NormaIds \cup {EmptyInput},
       norma_url \in MainUrls \cup {EmptyInput} :
         main(button, norma_id, norma_url)

SpecMain == Init /\ [][NextMain]_vars

(* ----------- extract_norma_text applied to bounded documents ----------- *)

(* BeautifulSoup(html, "html.parser") on documents in which every "<"     *)
(* opens a complete tag <name> or </name> and every "&" opens the entity  *)
(* &amp;. No document holds script or style, whose content html.parser    *)
(* reads as raw text.                                                     *)
Pieces ==
    { <<"a", "b">>, <<"a", "b", "c">>, <<" ">>, <<"\n">>,
      <<"<", "p", ">">>, <<"<", "/", "p", ">">>,
      <<"<", "n", "a", "v", ">">>, <<"<", "/", "n", "a", "v", ">">>,
      <<"&", "a", "m", "p", ";">> }

RECURSIVE docs_of(_)
docs_of(k) ==
    IF k = 0 THEN { << >> }
    ELSE {d \o piece : d \in docs_of(k - 1), piece \in Pieces}

(* the documents of at most n pieces *)
HtmlDocs(n) == UNION {docs_of(k) : k \in 0..n}

(* the characters re's \s matches, among those of the documents *)
is_space(ch) == ch \in {" ", "\n"}

(* the first index from i on at which s holds ch *)
find(s, ch, i) == CHOOSE j \in i..Len(s) :
                    s[j] = ch /\ \A o \in i..(j - 1) : s[o] # ch

(* the selectors whose elements are decomposed *)
selectors == { <<"s", "c", "r", "i", "p", "t">>, <<"s", "t", "y", "l", "e">>,
               <<"n", "a", "v">>, <<"f", "o", "o", "t", "e", "r">>,
               <<"h", "e", "a", "d", "e", "r">> }

(* BeautifulSoup.endData: the text collected since the last tag becomes   *)
(* one string of the tree; a string of whitespace only is replaced by one *)
(* newline if it holds a newline and by one space otherwise; the string   *)
(* is dropped with its element when a decomposed element is open         *)
endData(data, stack, strings) ==
    IF data = << >> \/ \E i \in DOMAIN stack : stack[i] \in selectors
    THEN strings
    ELSE IF \A i \in DOMAIN data : is_space(data[i])
    THEN Append(strings,
                IF \E i \in DOMAIN data : data[i] = "\n"
                THEN <<"\n">> ELSE <<" ">>)
    ELSE Append(strings, data)

(* BeautifulSoup._popToTag: close the most recently opened element of     *)
(* that name and every element opened inside it; no such element open,    *)
(* nothing is closed                                                      *)
popToTag(stack, name) ==
    LET open == {i \in DOMAIN stack : stack[i] = name}
    IN  IF open = {} THEN stack
        ELSE SubSeq(stack, 1, (CHOOSE i \in open : \A o \in open : o <= i) - 1)

(* HTMLParser.feed driving the tree builder from position i: data is the  *)
(* text collected since the last tag, stack the open elements, strings    *)
(* the strings of the tree that survive decompose(), in document order    *)
RECURSIVE feed(_, _, _, _, _)
feed(html, i, data, stack, strings) ==
    IF i > Len(html)
    THEN endData(data, stack, strings)
    ELSE IF html[i] = "<"
    THEN LET k == find(html, ">", i)
         IN  IF html[i + 1] = "/"
             THEN feed(html, k + 1, << >>,
                       popToTag(stack, SubSeq(html, i + 2, k - 1)),
                       endData(data, stack, strings))
             ELSE feed(html, k + 1, << >>,
                       Append(stack, SubSeq(html, i + 1, k - 1)),
                       endData(data, stack, strings))
    ELSE IF html[i] = "&"
    THEN feed(html, find(html, ";", i) + 1, Append(data, "&"), stack, strings)
    ELSE feed(html, i + 1, Append(data, html[i]), stack, strings)

(* separator.join(lines) *)
RECURSIVE join(_, _)
join(separator, lines) ==
    IF lines = << >> THEN << >>
    ELSE IF Len(lines) = 1 THEN lines[1]
    ELSE lines[1] \o separator \o join(separator, Tail(lines))

(* soup.get_text("\n") after the decompose loop *)
get_text(html, separator) == join(separator, feed(html, 1, << >>, << >>, << >>))

(* re.sub(r"\s+", " ", text) *)
RECURSIVE compact(_)
compact(text) ==
    IF text = << >> THEN << >>
    ELSE IF is_space(text[1])
    THEN IF Len(text) > 1 /\ is_space(text[2])
         THEN compact(Tail(text))
         ELSE <<" ">> \o compact(Tail(text))
    ELSE <<text[1]>> \o compact(Tail(text))

(* str.strip() *)
strip(text) ==
    LET solid == {i \in DOMAIN text : ~is_space(text[i])}
    IN  IF solid = {} THEN << >>
        ELSE SubSeq(text, CHOOSE i \in solid : \A o \in solid : i <= o,
                          CHOOSE i \in solid : \A o \in solid : o <= i)

(* as normalize_text, without the strip *)
normalize_text_unstripped(text) == compact(text)

normalize_text(text) == strip(compact(text))

(* as cleaned_lines, keeping lines longer than 3 *)
cleaned_lines_longer(lines) == SelectSeq(lines, LAMBDA line : Len(line) > 3)

cleaned_lines(lines) == SelectSeq(lines, LAMBDA line : Len(line) > 2)

extract_norma_text(html) ==
    LET text == get_text(html, <<"\n">>)
        split == splitlines(text)
        lines == [p \in DOMAIN split |-> normalize_text(split[p])]
    IN  join(<<"\n">>, cleaned_lines(lines))

InitNorm ==
    /\ StoreInit
    /\ fn \in {FnCall("args", html, << >>, << >>) : html \in HtmlDocs(MaxPieces)}

(* content = fetch_norma(norma_url): extract_norma_text(response.text) *)
call_extract_norma_text ==
    /\ fn.op = "args"
    /\ fn' = FnCall("extract_norma_text", fn.a, << >>, extract_norma_text(fn.a))
    /\ UNCHANGED <<schema, rows, seq, last, pc, loc>>

NextNorm == call_extract_norma_text

SpecNorm == InitNorm /\ [][NextNorm]_vars

(* ======================= claims ======================= *)

IsSave(c) == c.op = "save_if_changed"
RowsOf(norma_id) == {rows[i] : i \in {j \in DOMAIN rows : rows[j].norma_id = norma_id}}

(* C1: two save_if_changed calls in a row with the same norma_id and the   *)
(* same content_text: the second returns changed = False and appends       *)
(* nothing, so the two calls together append one row exactly when the      *)
(* first one reported a change.                                            *)
C1_IdempotentCapture ==
    [][\A n \in NormaIds, u \in Urls, t \in Texts :
         (IsSave(last) /\ last.args[1] = n /\ last.args[3] = t
            /\ save_if_changed(n, u, t))
         => /\ last'.ret = <<FALSE, hash_content(t)>>
            /\ rows' = rows
            /\ Len(rows') = last.before + (IF last.ret[1] THEN 1 ELSE 0)]_vars

(* C2: in the history of every norma_id no two consecutive rows carry the  *)
(* same content_hash.                                                      *)
C2_NoConsecutiveDuplicates ==
    \A n \in NormaIds :
        LET history == versions_of(rows, n)
        IN  \A i \in 1..(Len(history) - 1) :
                history[i].content_hash # history[i + 1].content_hash

(* C3: a save_if_changed call for a norma_id that has no row yet, or whose *)
(* most recently appended row has another content_hash, appends exactly    *)
(* one row carrying the call's norma_id, source_url and content_text and   *)
(* returns (True, hash).                                                   *)
C3_ChangeDetection ==
    [][\A n \in NormaIds, u \in Urls, t \in Texts :
         LET mine == where_norma_id(rows, n)
         IN  (save_if_changed(n, u, t)
                /\ (mine = << >> \/ mine[Len(mine)].content_hash # hash_content(t)))
             => /\ Len(rows') = Len(rows) + 1
                /\ SubSeq(rows', 1, Len(rows)) = rows
                /\ rows'[Len(rows')].norma_id = n
                /\ rows'[Len(rows')].source_url = u
                /\ rows'[Len(rows')].content_text = t
                /\ last'.ret = <<TRUE, hash_content(t)>>]_vars

(* C4: a save_if_changed call made while the latest version of the         *)
(* norma_id has the hash of the call's text returns (False, hash) and      *)
(* leaves the whole table as it was.                                       *)
C4_UnchangedIsNoOp ==
    [][(/\ IsSave(last')
        /\ latest_of(rows, last'.args[1]) # None
        /\ latest_of(rows, last'.args[1])[1].content_hash
              = hash_content(last'.args[3]))
       => /\ rows' = rows
          /\ seq' = seq
          /\ last'.ret = <<FALSE, hash_content(last'.args[3])>>]_vars

C4_Witness ==
    /\ IsSave(last) /\ last.ret[1] = FALSE
    /\ Len(rows) >= 2
    /\ \E r \in RowsOf(last.args[1]) : r.source_url # last.args[2]

C6_HistoryOrdering ==
    (last.op = "list_versions") =>
        LET history == last.ret
        IN  /\ Range(history) = RowsOf(last.args[1])
            /\ Len(history) = Cardinality(RowsOf(last.args[1]))
            /\ \A i \in 1..(Len(history) - 1) :
                   idx_norma_versions_lookup(history[i], history[i + 1])
            /\ history = where_norma_id(rows, last.args[1])

(* C7: with two runs at once, the INSERT of a run that passed the check    *)
(* always adds its row, also when by then the latest version of the        *)
(* norma_id already has the same hash; two runs capturing the same text    *)
(* after seeing the same latest version thus leave two adjacent rows with  *)
(* equal content_hash.                                                     *)
C7_RacingInsertAppends ==
    [][\A p \in Procs :
         (pc[p] = "insert" /\ pc'[p] = "idle")
         => /\ Len(rows') = Len(rows) + 1
            /\ SubSeq(rows', 1, Len(rows)) = rows
            /\ rows'[Len(rows')].norma_id = loc[p].norma_id
            /\ rows'[Len(rows')].content_hash = loc[p].new_hash
            /\ last'.ret = <<TRUE, loc[p].new_hash>>]_vars

C7_Witness ==
    /\ \A p \in Procs : pc[p] = "idle"
    /\ Len(rows) = 2
    /\ rows[1].norma_id = rows[2].norma_id
    /\ rows[1].content_hash = rows[2].content_hash
    /\ rows[1].fetched_at <= rows[2].fetched_at
    /\ versions_of(rows, rows[1].norma_id) = rows

(* C8: a stored row stays where it is, field by field; the table changes   *)
(* only by a save_if_changed call that adds one row at the end.            *)
C8_AppendOnly ==
    [][/\ \A i \in DOMAIN rows : i \in DOMAIN rows' /\ rows'[i] = rows[i]
       /\ rows' # rows =>
            /\ Len(rows') = Len(rows) + 1
            /\ IsSave(last') /\ last'.ret[1] = TRUE]_vars

C8_Witness ==
    /\ Len(rows) >= 2
    /\ last.op = "init_db"

(* C9: every stored row has content_hash = hash_content(content_text).     *)
C9_HashOfStoredText ==
    \A i \in DOMAIN rows : rows[i].content_hash = hash_content(rows[i].content_text)

C9_Witness ==
    \E i, j \in DOMAIN rows : rows[i].content_text # rows[j].content_text

(* C10: ids are distinct over the whole table and every row has a greater  *)
(* id than all rows inserted before it, whatever their norma_id.           *)
C10_IdsIncrease ==
    \A i, j \in DOMAIN rows : i < j => rows[i].id < rows[j].id

C10_Witness ==
    /\ Len(rows) >= 3
    /\ \E i, j \in DOMAIN rows : rows[i].norma_id # rows[j].norma_id

(* C14: init_db can always be called; on a database that already has the   *)
(* table it leaves the table, the index and every row as they are, so a    *)
(* second init_db changes nothing the first one left.                      *)
C14_InitDbIdempotent ==
    /\ []ENABLED init_db
    /\ [][last'.op = "init_db"
            => /\ schema'
               /\ rows' = rows
               /\ seq' = seq
               /\ schema => schema' = schema]_vars

C14_Witness ==
    /\ last.op = "init_db"
    /\ last.before = MaxRows
    /\ Len(rows) = MaxRows

(* C16: with two rows A, B of a norma_id in the table (A inserted first,   *)
(* different hashes), a save_if_changed call with text A inserts a third   *)
(* row and returns changed = True.                                         *)
C16_DedupAgainstLatestOnly ==
    [][\A n \in NormaIds, u \in Urls, t \in Texts :
         LET mine == where_norma_id(rows, n)
         IN  (/\ Len(mine) = 2
              /\ mine[1].content_hash = hash_content(t)
              /\ mine[2].content_hash # hash_content(t)
              /\ save_if_changed(n, u, t))
             => /\ Len(where_norma_id(rows', n)) = 3
                /\ last'.ret = <<TRUE, hash_content(t)>>]_vars

(* C19: right after a save_if_changed call, whatever it returned, the      *)
(* latest version of the norma_id exists and has the call's text and the   *)
(* returned hash.                                                          *)
C19_CaptureEstablishesLatest ==
    IsSave(last) =>
        LET latest == latest_of(rows, last.args[1])
        IN  /\ latest # None
            /\ latest[1].content_text = last.args[3]
            /\ latest[1].content_hash = last.ret[2]

(* C20: a save_if_changed call for one norma_id leaves the rows, the       *)
(* history and the latest version of every other norma_id as they were,    *)
(* and whether it reports a change is decided by the rows of its own       *)
(* norma_id alone.                                                         *)
C20_PerNormaIsolation ==
    [][IsSave(last') =>
         LET n == last'.args[1]
             own == latest_of(where_norma_id(rows, n), n)
         IN  /\ \A m \in NormaIds \ {n} :
                   /\ where_norma_id(rows', m) = where_norma_id(rows, m)
                   /\ versions_of(rows', m) = versions_of(rows, m)
                   /\ latest_of(rows', m) = latest_of(rows, m)
             /\ last'.ret[1] = ~(/\ own # None
                                 /\ own[1].content_hash
                                      = hash_content(last'.args[3]))]_vars

C20_Witness ==
    /\ IsSave(last) /\ last.ret[1] = TRUE
    /\ \E i \in DOMAIN rows :
         /\ rows[i].norma_id # last.args[1]
         /\ rows[i].content_hash = last.ret[2]
         /\ rows[i].fetched_at > rows[Len(rows)].fetched_at

(* C13: iter_changes(X, X) is empty, and iter_changes(A, B) is non-empty   *)
(* for every A # B.                                                        *)
C13_DiffRoundTrip ==
    fn.op = "iter_changes"
        => /\ fn.a = fn.b => fn.out = << >>
           /\ fn.a # fn.b => fn.out # << >>

(* the deleted and inserted lines of the comparison, in diff order, each   *)
(* with its one-character marker                                           *)
changed_lines(old_text, new_text) ==
    LET a == splitlines(old_text)
        b == splitlines(new_text)
        ops == opcode_lines(a, b, 0, Len(a), 0, Len(b))
        changed == SelectSeq(ops, LAMBDA o : o.tag # " ")
    IN  [p \in DOMAIN changed |-> <<changed[p].tag>> \o changed[p].line]

(* C17: the change summary holds exactly one entry per deleted line and    *)
(* one per inserted line, in diff order, and nothing else: no line is      *)
(* lost whatever characters it starts with.                                *)
C17_ChangeSummaryContent ==
    fn.op = "iter_changes" => fn.out = changed_lines(fn.a, fn.b)

IsMain(c) == c.op = "main"

(* the versions the run lists: list_versions(norma_id) if norma_id else [] *)
listed(table, norma_id) ==
    IF norma_id = EmptyInput THEN << >> ELSE versions_of(table, norma_id)

(* C11 as stated: with fewer than two versions, or a base that is not     *)
(* strictly before the new version, no diff is produced and an error or   *)
(* a warning is reported; a diff is produced only when the base is        *)
(* strictly before the new version; a run that only compares leaves the   *)
(* store unchanged.                                                       *)
C11_InvalidComparisonRejected ==
    [][IsMain(last')
        => LET versions == listed(rows', last'.args.norma_id)
               cmp == last'.ret.compare
           IN  /\ (Len(versions) < 2 \/ cmp.old_idx >= cmp.new_idx)
                    => cmp.kind \in {"error", "warning"} /\ cmp.changes = None
               /\ cmp.kind = "diff" => cmp.old_idx < cmp.new_idx
               /\ ~last'.args.button => rows' = rows /\ seq' = seq]_vars

(* C11 amended: no version gives the notice "Aún no hay versiones" (an    *)
(* info message), exactly one version gives the warning, two or more with *)
(* a base not strictly before the new version give the error; in all      *)
(* three no diff is produced; a diff is produced exactly when there are   *)
(* two or more versions and the base is strictly before the new one; a    *)
(* run that only compares leaves the store unchanged.                     *)
C11_InvalidComparisonHandled ==
    [][IsMain(last')
        => LET versions == listed(rows', last'.args.norma_id)
               cmp == last'.ret.compare
           IN  /\ cmp.kind = "info" <=> versions = << >>
               /\ cmp.kind = "warning" <=> Len(versions) = 1
               /\ cmp.kind \in {"error", "diff"} <=> Len(versions) >= 2
               /\ cmp.kind = "error" => cmp.old_idx >= cmp.new_idx
               /\ cmp.kind = "diff" => cmp.old_idx < cmp.new_idx
               /\ cmp.kind # "diff" <=> cmp.changes = None
               /\ ~last'.args.button => rows' = rows /\ seq' = seq]_vars

(* a comparison of a version with itself was refused, nothing captured *)
C11_Witness ==
    /\ IsMain(last)
    /\ ~last.args.button
    /\ last.ret.compare.kind = "error"
    /\ last.ret.compare.old_idx = last.ret.compare.new_idx
    /\ Len(rows) = MaxMainRows

(* C12: when the download fails, the run reports an error, does not call  *)
(* save_if_changed, and leaves the table and its id counter as they were. *)
C12_RetrievalFailureStoresNothing ==
    [][(IsMain(last') /\ last'.args.fetched = <<RequestException>>)
        => /\ last'.ret.msg = "error"
           /\ last'.ret.save = None
           /\ rows' = rows
           /\ seq' = seq]_vars

(* a download failed for an id that already had a version *)
C12_Witness ==
    /\ IsMain(last)
    /\ last.args.fetched = <<RequestException>>
    /\ last.ret.compare.kind = "warning"

(* the lines of a text joined by single newlines: the text cut at every   *)
(* newline, an empty text having no line                                  *)
RECURSIVE joined_lines(_)
joined_lines(text) ==
    IF text = << >> THEN << >>
    ELSE LET ends == {i \in DOMAIN text : text[i] = "\n"}
         IN  IF ends = {} THEN << text >>
             ELSE LET i == CHOOSE e \in ends : \A o \in ends : e <= o
                  IN  IF i = Len(text) THEN << SubSeq(text, 1, i - 1), << >> >>
                      ELSE << SubSeq(text, 1, i - 1) >>
                             \o joined_lines(SubSeq(text, i + 1, Len(text)))

(* a line that is trimmed, single-spaced and longer than 2 characters *)
clean_line(line) ==
    /\ Len(line) > 2
    /\ ~is_space(line[1])
    /\ ~is_space(line[Len(line)])
    /\ \A i \in 1..(Len(line) - 1) : ~(is_space(line[i]) /\ is_space(line[i + 1]))

(* already-normalized text: clean lines joined by single newlines *)
is_normalized(text) ==
    \A p \in DOMAIN joined_lines(text) : clean_line(joined_lines(text)[p])

IsExtract(c) == c.op = "extract_norma_text"

(* C15 as stated: extract_norma_text returns every already-normalized     *)
(* text unchanged.                                                        *)
C15_NormalizationIdempotence ==
    (IsExtract(fn) /\ is_normalized(fn.a)) => fn.out = fn.a

(* C15 amended: extract_norma_text returns unchanged every                *)
(* already-normalized text that holds no "<" and no "&".                  *)
C15_NormalizationIdempotencePlain ==
    (/\ IsExtract(fn)
     /\ is_normalized(fn.a)
     /\ \A i \in DOMAIN fn.a : fn.a[i] \notin {"<", "&"})
        => fn.out = fn.a

(* an already-normalized text of two lines came back unchanged *)
C15_Witness ==
    /\ IsExtract(fn)
    /\ is_normalized(fn.a)
    /\ \A i \in DOMAIN fn.a : fn.a[i] \notin {"<", "&"}
    /\ Len(joined_lines(fn.a)) = 2
    /\ fn.out = fn.a

(* C18: every line of the output is trimmed, holds no run of two or more  *)
(* whitespace characters and is longer than 2; the lines are exactly the  *)
(* collapsed, trimmed lines of the extracted text longer than 2, in       *)
(* document order, joined by single newlines.                             *)
C18_NormalizerOutputShape ==
    IsExtract(fn)
        => LET out_lines == joined_lines(fn.out)
               extracted == splitlines(get_text(fn.a, <<"\n">>))
               trimmed == [p \in DOMAIN extracted |->
                             strip(compact(extracted[p]))]
           IN  /\ \A p \in DOMAIN out_lines : clean_line(out_lines[p])
               /\ out_lines = SelectSeq(trimmed, LAMBDA line : Len(line) > 2)

(* a document with markup and untrimmed text, of which one line is kept   *)
(* and one short line is dropped                                          *)
C18_Witness ==
    /\ IsExtract(fn)
    /\ fn.out = <<"a", "b", "c">>
    /\ \E i \in DOMAIN fn.a : fn.a[i] = "<"
    /\ \E i \in 1..(Len(fn.a) - 1) : fn.a[i] = " " /\ fn.a[i + 1] = "a"
    /\ Len(splitlines(get_text(fn.a, <<"\n">>))) > 1

====
